---- MODULE Spec2Model ----
(***************************************************************************)
(* Model of pkg/plugins/secret/secret_manager/secret_manager.go: the GCP   *)
(* Secret Manager backed secret plugin (Put / Access) with its name ->     *)
(* container cache, together with the part of the Secret Manager API the   *)
(* plugin calls (ListSecrets, AddSecretVersion, AccessSecretVersion).      *)
(*                                                                         *)
(* Strings that the code builds or takes apart (resource names, the list   *)
(* filter) are sequences of tokens; "/" is a token of its own, so that     *)
(* fmt.Sprintf and strings.Split are modelled by what they do.             *)
(***************************************************************************)
EXTENDS Integers, Sequences, FiniteSets, TLC

VARIABLES
    secrets,    \* backing store: sequence of containers (labels), id = index
    versions,   \* backing store: versions[id] = sequence of payloads
    cache,      \* cache[i] = the map s.cache of service instance i
    puts,       \* history: the successful Put responses, with the value put
    last,       \* history: the last completed call, its input and outcome
    pc,         \* concurrent calls: position of each goroutine
    frame,      \* concurrent calls: locals of each goroutine
    mapUse,     \* concurrent calls: the access each goroutine has open on s.cache
    crashed     \* concurrent calls: the runtime has thrown a fatal error

vars == <<secrets, versions, cache, puts, last, pc, frame, mapUse, crashed>>

----------------------------------------------------------------------------
(* Bounds *)
MaxVersions == 2     \* versions the store holds in all
MaxReplaced == 1     \* containers deleted and provisioned again

(* Input alphabets *)
Names == {"db-pass", "api-key"}
Stacks == {"stackA", "stackB"}
\* the secrets the stacks declare: <<name, stack>>
Declared == {<<"db-pass", "stackA">>, <<"api-key", "stackA">>, <<"db-pass", "stackB">>}
Instances == {"svcA", "svcB"}
Values == {<<>>, <<1>>, <<2, 1>>}
VersionIds == {""} \cup {ToString(k) : k \in 1..(MaxVersions + 1)}
Procs == {"g1", "g2"}

NilSecret == [isNil |-> TRUE, Name |-> ""]
SecretInputs == {NilSecret} \cup {[isNil |-> FALSE, Name |-> n] : n \in Names \cup {""}}
SecretVersionInputs ==
    {[Secret |-> [isNil |-> FALSE, Name |-> n], Version |-> v] :
        n \in Names \cup {""}, v \in VersionIds}

SV(name, version) == [Secret |-> [isNil |-> FALSE, Name |-> name], Version |-> version]

\* the fields New() fills in
projectId(i) == "proj"
stackName(i) == IF i = "svcA" THEN "stackA" ELSE "stackB"

----------------------------------------------------------------------------
(* Strings *)

\* strings.Split(s, "/") on a token sequence
RECURSIVE Split(_)
Split(s) ==
    IF \A k \in 1..Len(s) : s[k] # "/"
    THEN <<s>>
    ELSE LET k == CHOOSE j \in 1..Len(s) :
                      s[j] = "/" /\ \A m \in 1..(j - 1) : s[m] # "/"
         IN <<SubSeq(s, 1, k - 1)>> \o Split(SubSeq(s, k + 1, Len(s)))

\* the text of a one-token-or-empty Go string
Tok(str) == IF str = "" THEN <<>> ELSE <<str>>
\* the Go string of a token sequence of at most one token
Str(toks) == IF toks = <<>> THEN "" ELSE toks[1]

Range(f) == {f[x] : x \in DOMAIN f}

getParentName(i) == <<"projects", "/", projectId(i)>>

----------------------------------------------------------------------------
(* The backing store: the Secret Manager API as the plugin uses it *)

\* resource name of container id
SecretName(id) == <<"projects", "/", "proj", "/", "secrets", "/", ToString(id)>>
\* resource name of version k of container id
VersionName(id, k) == SecretName(id) \o <<"/", "versions", "/", ToString(k)>>

SecretIds == 1..Len(secrets)

RECURSIVE SumLen(_, _)
SumLen(vs, k) == IF k = 0 THEN 0 ELSE Len(vs[k]) + SumLen(vs, k - 1)
\* the number of versions in a store
StoredVersions(vs) == SumLen(vs, Len(vs))

\* what is left of a container that was deleted: no labels, no versions
Deleted == [name |-> "", stack |-> ""]

\* the containers carrying the labels name and stack
Labelled(name, stack) ==
    {id \in SecretIds : secrets[id].name = name /\ secrets[id].stack = stack}

\* the request with a filter on the name label alone
ListSecretsRequest_noStack(i, sec) ==
    [Parent |-> getParentName(i),
     Filter |-> <<"labels.x-nitric-name=">> \o Tok(sec.Name)]

\* the request with a filter on the stack label alone
ListSecretsRequest_noName(i, sec) ==
    [Parent |-> getParentName(i),
     Filter |-> <<"labels.x-nitric-stack=">> \o Tok(stackName(i))]

\* the request the code sends to ListSecrets
ListSecretsRequest(i, sec) ==
    [Parent |-> getParentName(i),
     Filter |-> <<"labels.x-nitric-name=">> \o Tok(sec.Name) \o <<" AND ">>
                    \o <<"labels.x-nitric-stack=">> \o Tok(stackName(i))]

\* ListSecrets: the containers of the parent project that match the filter,
\* in the order of their ids
ListSecrets(req) ==
    LET f == req.Filter
        \* the value the filter term at position k asks for
        wanted(k) == IF k < Len(f) /\ f[k + 1] # " AND " THEN f[k + 1] ELSE ""
        match(id) ==
            /\ req.Parent = SubSeq(SecretName(id), 1, 3)
            /\ \A k \in 1..Len(f) :
                   /\ f[k] = "labels.x-nitric-name=" => wanted(k) = secrets[id].name
                   /\ f[k] = "labels.x-nitric-stack=" => wanted(k) = secrets[id].stack
    IN SelectSeq([k \in SecretIds |-> k], match)

\* iter.Next(): the first item, iterator.Done, or the error of the RPC
IterNext(ids, rpcErr) ==
    IF rpcErr THEN [err |-> "Unavailable", Name |-> <<>>]
    ELSE IF ids = <<>> THEN [err |-> "Done", Name |-> <<>>]
    ELSE [err |-> "nil", Name |-> SecretName(ids[1])]

\* AddSecretVersion: a new version under the container named parent
AddSecretVersion(parent, data, rpcErr) ==
    IF rpcErr THEN [err |-> "Unavailable", Name |-> <<>>, versions |-> versions]
    ELSE IF \E id \in SecretIds : SecretName(id) = parent /\ secrets[id] # Deleted
    THEN LET id == CHOOSE id \in SecretIds : SecretName(id) = parent
         IN [err |-> "nil",
             Name |-> VersionName(id, Len(versions[id]) + 1),
             versions |-> [versions EXCEPT ![id] = Append(@, data)]]
    ELSE [err |-> "NotFound", Name |-> <<>>, versions |-> versions]

\* AccessSecretVersion: the payload of the version with this resource name
AccessSecretVersion(name, rpcErr) ==
    IF rpcErr THEN [err |-> "Unavailable", Data |-> <<>>]
    ELSE IF \E id \in SecretIds : \E k \in 1..Len(versions[id]) : VersionName(id, k) = name
    THEN LET id == CHOOSE id \in SecretIds :
                       \E k \in 1..Len(versions[id]) : VersionName(id, k) = name
             k == CHOOSE k \in 1..Len(versions[id]) : VersionName(id, k) = name
         IN [err |-> "nil", Data |-> versions[id][k]]
    ELSE [err |-> "NotFound", Data |-> <<>>]

----------------------------------------------------------------------------
(* The plugin *)

NotCached == [inCache |-> FALSE, ref |-> <<>>]
EmptyCache == [n \in Names \cup {""} |-> NotCached]

\* validateNewSecret without the check of the value
validateNewSecret_noValueCheck(sec, val) ==
    IF sec.isNil THEN "provide non-nil secret"
    ELSE IF sec.Name = "" THEN "provide non-blank secret name"
    ELSE "nil"

validateNewSecret(sec, val) ==
    IF sec.isNil THEN "provide non-nil secret"
    ELSE IF sec.Name = "" THEN "provide non-blank secret name"
    ELSE IF Len(val) = 0 THEN "provide non-blank secret value"
    ELSE "nil"

\* getSecret caching the project's name in place of the container's
getSecret_cachesParent(i, sec, rpcErr) ==
    LET result == IterNext(ListSecrets(ListSecretsRequest(i, sec)), rpcErr)
    IN IF result.err = "Done"
       THEN [err |-> "NotFound", Name |-> <<>>, cache |-> cache[i]]
       ELSE IF result.err # "nil"
       THEN [err |-> result.err, Name |-> <<>>, cache |-> cache[i]]
       ELSE [err |-> "nil", Name |-> result.Name,
             cache |-> [cache[i] EXCEPT ![sec.Name] =
                           [inCache |-> TRUE, ref |-> getParentName(i)]]]

\* getSecret writing the map before it looks at the error
getSecret_cachesOnError(i, sec, rpcErr) ==
    LET result == IterNext(ListSecrets(ListSecretsRequest(i, sec)), rpcErr)
        written == [cache[i] EXCEPT ![sec.Name] =
                       [inCache |-> TRUE, ref |-> result.Name]]
    IN IF result.err = "Done"
       THEN [err |-> "NotFound", Name |-> <<>>, cache |-> written]
       ELSE IF result.err # "nil"
       THEN [err |-> result.err, Name |-> <<>>, cache |-> written]
       ELSE [err |-> "nil", Name |-> result.Name, cache |-> written]

\* getSecret: lists the containers labelled for sec and this stack and caches
\* the first; cache is the map s.cache after the call
getSecret(i, sec, rpcErr) ==
    LET result == IterNext(ListSecrets(ListSecretsRequest(i, sec)), rpcErr)
    IN IF result.err = "Done"
       THEN [err |-> "NotFound", Name |-> <<>>, cache |-> cache[i]]
       ELSE IF result.err # "nil"
       THEN [err |-> result.err, Name |-> <<>>, cache |-> cache[i]]
       ELSE [err |-> "nil", Name |-> result.Name,
             cache |-> [cache[i] EXCEPT ![sec.Name] =
                           [inCache |-> TRUE, ref |-> result.Name]]]

\* the reference built with the alias of the newest version
versionRef_latest(parent, version) == parent \o <<"/", "versions", "/", "latest">>

\* fmt.Sprintf("%s/versions/%s", parent, version)
versionRef(parent, version) == parent \o <<"/", "versions", "/">> \o Tok(version)

\* the part before the last of strings.Split(name, "/")
versionOf_offByOne(name) ==
    LET versionStringParts == Split(name)
    IN Str(versionStringParts[Len(versionStringParts) - 1])

\* the last of strings.Split(name, "/")
versionOf(name) ==
    LET versionStringParts == Split(name)
    IN Str(versionStringParts[Len(versionStringParts)])

\* buildSecretVersionName without the check of the version
buildSecretVersionName_noVersionCheck(i, sv, rpcErr) ==
    IF sv.Secret.Name = ""
    THEN [err |-> "provide non-blank name", fullName |-> <<>>,
          cache |-> cache[i], calls |-> <<>>]
    ELSE IF cache[i][sv.Secret.Name].inCache
    THEN [err |-> "nil",
          fullName |-> versionRef(cache[i][sv.Secret.Name].ref, sv.Version),
          cache |-> cache[i], calls |-> <<>>]
    ELSE LET realSec == getSecret(i, sv.Secret, rpcErr)
         IN IF realSec.err # "nil"
            THEN [err |-> realSec.err, fullName |-> <<>>,
                  cache |-> realSec.cache, calls |-> <<"ListSecrets">>]
            ELSE [err |-> "nil",
                  fullName |-> versionRef(realSec.Name, sv.Version),
                  cache |-> realSec.cache, calls |-> <<"ListSecrets">>]

\* buildSecretVersionName; calls is the sequence of RPCs issued
buildSecretVersionName(i, sv, rpcErr) ==
    IF sv.Secret.Name = ""
    THEN [err |-> "provide non-blank name", fullName |-> <<>>,
          cache |-> cache[i], calls |-> <<>>]
    ELSE IF sv.Version = ""
    THEN [err |-> "provide non-blank version", fullName |-> <<>>,
          cache |-> cache[i], calls |-> <<>>]
    ELSE IF cache[i][sv.Secret.Name].inCache
    THEN [err |-> "nil",
          fullName |-> versionRef(cache[i][sv.Secret.Name].ref, sv.Version),
          cache |-> cache[i], calls |-> <<>>]
    ELSE LET realSec == getSecret(i, sv.Secret, rpcErr)
         IN IF realSec.err # "nil"
            THEN [err |-> realSec.err, fullName |-> <<>>,
                  cache |-> realSec.cache, calls |-> <<"ListSecrets">>]
            ELSE [err |-> "nil",
                  fullName |-> versionRef(realSec.Name, sv.Version),
                  cache |-> realSec.cache, calls |-> <<"ListSecrets">>]

\* the outcome of Put(sec, val) on instance i in the current state; listErr
\* and addErr say whether the ListSecrets / AddSecretVersion RPC fails
PutOutcome(i, sec, val, listErr, addErr) ==
    IF validateNewSecret(sec, val) # "nil"
    THEN [code |-> "InvalidArgument", retName |-> "", retVersion |-> "",
          cache |-> cache[i], versions |-> versions, calls |-> <<>>]
    ELSE LET parentSec == getSecret(i, sec, listErr)
         IN IF parentSec.err # "nil"
            THEN [code |-> "Internal", retName |-> "", retVersion |-> "",
                  cache |-> parentSec.cache, versions |-> versions,
                  calls |-> <<"ListSecrets">>]
            ELSE LET verResult == AddSecretVersion(parentSec.Name, val, addErr)
                 IN IF verResult.err # "nil"
                    THEN [code |-> "Internal", retName |-> "", retVersion |-> "",
                          cache |-> parentSec.cache, versions |-> versions,
                          calls |-> <<"ListSecrets", "AddSecretVersion">>]
                    ELSE [code |-> "OK", retName |-> sec.Name,
                          retVersion |-> versionOf(verResult.Name),
                          cache |-> parentSec.cache, versions |-> verResult.versions,
                          calls |-> <<"ListSecrets", "AddSecretVersion">>]

\* the outcome of Access(sv) on instance i in the current state
AccessOutcome(i, sv, listErr, accessErr) ==
    LET built == buildSecretVersionName(i, sv, listErr)
    IN IF built.err # "nil"
       THEN [code |-> "InvalidArgument", retName |-> "", retVersion |-> "",
             Value |-> <<>>, cache |-> built.cache, calls |-> built.calls]
       ELSE LET result == AccessSecretVersion(built.fullName, accessErr)
            IN IF result.err # "nil"
               THEN [code |-> "Internal", retName |-> "", retVersion |-> "",
                     Value |-> <<>>, cache |-> built.cache,
                     calls |-> Append(built.calls, "AccessSecretVersion")]
               ELSE [code |-> "OK", retName |-> sv.Secret.Name,
                     retVersion |-> sv.Version, Value |-> result.Data,
                     cache |-> built.cache,
                     calls |-> Append(built.calls, "AccessSecretVersion")]

----------------------------------------------------------------------------
(* State machine: calls that run one at a time *)

NoCall ==
    [op |-> "none", inst |-> "", secNil |-> FALSE, name |-> "", val |-> <<>>,
     version |-> "", code |-> "", retName |-> "", retVersion |-> "",
     retValue |-> <<>>, calls |-> <<>>, fault |-> FALSE, hit |-> FALSE,
     had |-> FALSE]

\* the locals of a goroutine that runs no call
Idle ==
    [op |-> "none", inst |-> "", name |-> "", val |-> <<>>, version |-> "",
     parent |-> <<>>, fullName |-> <<>>, code |-> "", retVersion |-> "",
     retValue |-> <<>>, fault |-> FALSE, raced |-> FALSE, had |-> FALSE,
     conc |-> FALSE, calls |-> <<>>, errAt |-> 0]

\* the state New() returns, over an empty project
Init ==
    /\ secrets = <<>>
    /\ versions = <<>>
    /\ cache = [i \in Instances |-> EmptyCache]
    /\ puts = {}
    /\ last = NoCall
    /\ pc = [p \in Procs |-> "idle"]
    /\ frame = [p \in Procs |-> Idle]
    /\ mapUse = [p \in Procs |-> "none"]
    /\ crashed = FALSE

\* the deployment provisions the container of a declared secret, labelled with
\* the secret's name and the stack; one container per name and stack
CreateSecret(name, stack) ==
    /\ <<name, stack>> \in Declared
    /\ Labelled(name, stack) = {}
    /\ secrets' = Append(secrets, [name |-> name, stack |-> stack])
    /\ versions' = Append(versions, <<>>)
    /\ last' = NoCall
    /\ UNCHANGED <<cache, puts, pc, frame, mapUse, crashed>>

Put(i, sec, val) ==
    \E listErr \in BOOLEAN, addErr \in BOOLEAN :
        \E out \in {PutOutcome(i, sec, val, listErr, addErr)} :
           /\ listErr => Len(out.calls) >= 1
           /\ addErr => Len(out.calls) >= 2
           /\ StoredVersions(out.versions) <= MaxVersions
           /\ cache' = [cache EXCEPT ![i] = out.cache]
           /\ versions' = out.versions
           /\ puts' = IF out.code = "OK"
                      THEN puts \cup {[inst |-> i, name |-> out.retName,
                                       version |-> out.retVersion, value |-> val]}
                      ELSE puts
           /\ last' = [op |-> "Put", inst |-> i, secNil |-> sec.isNil,
                       name |-> sec.Name, val |-> val, version |-> "",
                       code |-> out.code, retName |-> out.retName,
                       retVersion |-> out.retVersion, retValue |-> <<>>,
                       calls |-> out.calls,
                       fault |-> listErr \/ addErr,
                       hit |-> cache[i][sec.Name].inCache,
                       had |-> Labelled(sec.Name, stackName(i)) # {}]
           /\ UNCHANGED <<secrets, pc, frame, mapUse, crashed>>

Access(i, sv) ==
    \E listErr \in BOOLEAN, accessErr \in BOOLEAN :
        \E out \in {AccessOutcome(i, sv, listErr, accessErr)} :
           /\ listErr => "ListSecrets" \in Range(out.calls)
           /\ accessErr => "AccessSecretVersion" \in Range(out.calls)
           /\ cache' = [cache EXCEPT ![i] = out.cache]
           /\ last' = [op |-> "Access", inst |-> i, secNil |-> FALSE,
                       name |-> sv.Secret.Name, val |-> <<>>,
                       version |-> sv.Version,
                       code |-> out.code, retName |-> out.retName,
                       retVersion |-> out.retVersion, retValue |-> out.Value,
                       calls |-> out.calls,
                       fault |-> listErr \/ accessErr,
                       hit |-> cache[i][sv.Secret.Name].inCache,
                       had |-> Labelled(sv.Secret.Name, stackName(i)) # {}]
           /\ UNCHANGED <<secrets, versions, puts, pc, frame, mapUse, crashed>>

\* one service instance, its calls made one after the other
Next ==
    \/ \E n \in Names, st \in Stacks : CreateSecret(n, st)
    \/ \E sec \in SecretInputs, val \in Values : Put("svcA", sec, val)
    \/ \E sv \in SecretVersionInputs : Access("svcA", sv)

Spec == Init /\ [][Next]_vars

----------------------------------------------------------------------------
(* State machine: the deployment also replaces containers *)

\* outside the service, container id is deleted and provisioned again under
\* the same labels with the same payloads; the new container has a new
\* resource name
ReplaceSecret(id) ==
    /\ id \in SecretIds /\ secrets[id] # Deleted
    /\ Cardinality({d \in SecretIds : secrets[d] = Deleted}) < MaxReplaced
    /\ secrets' = Append([secrets EXCEPT ![id] = Deleted], secrets[id])
    /\ versions' = Append([versions EXCEPT ![id] = <<>>], versions[id])
    /\ last' = NoCall
    /\ UNCHANGED <<cache, puts, pc, frame, mapUse, crashed>>

NextStale ==
    \/ CreateSecret("db-pass", "stackA")
    \/ \E val \in Values \ {<<>>} : Put("svcA", SV("db-pass", "").Secret, val)
    \/ \E v \in VersionIds \ {""} : Access("svcA", SV("db-pass", v))
    \/ \E id \in SecretIds : ReplaceSecret(id)

SpecStale == Init /\ [][NextStale]_vars

----------------------------------------------------------------------------
(* State machine: two service instances, one per stack, over one project   *)
(* in which both stacks declare the secret db-pass                         *)

NextScopes ==
    \/ \E st \in Stacks : CreateSecret("db-pass", st)
    \/ \E i \in Instances, val \in Values \ {<<>>} :
          Put(i, SV("db-pass", "").Secret, val)
    \/ \E i \in Instances, v \in VersionIds \ {""} : Access(i, SV("db-pass", v))

SpecScopes == Init /\ [][NextScopes]_vars

----------------------------------------------------------------------------
(* State machine: Access called through a pointer that may be nil.         *)
(* A *secret.SecretVersion is <<>> when nil and <<sv>> when it points to   *)
(* sv; sv.Secret is NilSecret when that pointer is nil.                    *)

SecretVersionPointers ==
    {<<>>} \cup {<<[Secret |-> NilSecret, Version |-> v]>> : v \in {"", "1"}}
           \cup {<<sv>> : sv \in SecretVersionInputs}

\* Access(sv): sv.Secret.Name at line 63 dereferences sv and sv.Secret with no
\* nil check before it; on a nil pointer the call panics
AccessCall(i, ptr) ==
    /\ ~crashed
    /\ IF ptr = <<>> \/ ptr[1].Secret.isNil
       THEN /\ crashed' = TRUE
            /\ last' = [NoCall EXCEPT !.op = "Access", !.inst = i, !.secNil = TRUE,
                                      !.code = "panic"]
            /\ UNCHANGED <<secrets, versions, cache, puts, pc, frame, mapUse>>
       ELSE Access(i, ptr[1])

NextNil ==
    \/ ~crashed /\ CreateSecret("db-pass", "stackA")
    \/ ~crashed /\ \E val \in Values : Put("svcA", SV("db-pass", "").Secret, val)
    \/ \E ptr \in SecretVersionPointers : AccessCall("svcA", ptr)

SpecNil == Init /\ [][NextNil]_vars

----------------------------------------------------------------------------
(* State machine: calls that run concurrently, one goroutine each.          *)
(* A goroutine is at "idle", at "list" / "add" / "access" while the RPC of  *)
(* that name is pending, at "read" / "write" while its access to the map    *)
(* s.cache is open, and at "done" when the call has returned.  s.cache is a *)
(* plain Go map and the code takes no lock, so two accesses may be open at  *)
(* once; when one of them is a write that is a data race, after which the   *)
(* runtime may throw its fatal error or let the access complete.            *)

ConcSecret == [isNil |-> FALSE, Name |-> "db-pass"]
PayloadOf(p) == IF p = "g1" THEN <<1>> ELSE <<2, 1>>

Running(p) == pc[p] \notin {"idle", "done"}

\* the goroutines whose open access to the map of instance i conflicts with
\* an access of kind use by p
Conflicting(p, i, use) ==
    {q \in Procs \ {p} :
        /\ frame[q].inst = i
        /\ mapUse[q] # "none"
        /\ (use = "write" \/ mapUse[q] = "write")}

\* frame with goroutine p opening an access that the goroutines qs conflict with
MarkRaced(fr, p, qs) ==
    [q \in Procs |->
        IF qs # {} /\ q \in qs \cup {p} THEN [fr[q] EXCEPT !.raced = TRUE] ELSE fr[q]]

\* frame with the calls in progress marked as overlapping the call p starts
MarkConc(fr, p) ==
    LET others == {q \in Procs \ {p} : Running(q)}
    IN [q \in Procs |->
           IF others # {} /\ q \in others \cup {p}
           THEN [fr[q] EXCEPT !.conc = TRUE] ELSE fr[q]]

\* Put up to the ListSecrets request of getSecret (lines 106-89)
PutStart(p, i, sec, val) ==
    /\ ~crashed /\ pc[p] = "idle"
    /\ LET fr == [Idle EXCEPT !.op = "Put", !.inst = i, !.name = sec.Name,
                              !.val = val,
                              !.had = Labelled(sec.Name, stackName(i)) # {}]
       IN IF validateNewSecret(sec, val) # "nil"
          THEN /\ pc' = [pc EXCEPT ![p] = "done"]
               /\ frame' = [frame EXCEPT ![p] = [fr EXCEPT !.code = "InvalidArgument"]]
          ELSE /\ pc' = [pc EXCEPT ![p] = "list"]
               /\ frame' = MarkConc([frame EXCEPT
                                        ![p] = [fr EXCEPT !.calls = <<"ListSecrets">>]], p)
    /\ UNCHANGED <<secrets, versions, cache, puts, last, mapUse, crashed>>

\* Access up to the read of s.cache in buildSecretVersionName (lines 160-71)
AccessStart(p, i, sv) ==
    /\ ~crashed /\ pc[p] = "idle"
    /\ LET fr == [Idle EXCEPT !.op = "Access", !.inst = i, !.name = sv.Secret.Name,
                              !.version = sv.Version,
                              !.had = Labelled(sv.Secret.Name, stackName(i)) # {}]
       IN IF sv.Secret.Name = "" \/ sv.Version = ""
          THEN /\ pc' = [pc EXCEPT ![p] = "done"]
               /\ frame' = [frame EXCEPT ![p] = [fr EXCEPT !.code = "InvalidArgument"]]
               /\ UNCHANGED mapUse
          ELSE /\ pc' = [pc EXCEPT ![p] = "read"]
               /\ mapUse' = [mapUse EXCEPT ![p] = "read"]
               /\ frame' = MarkRaced(MarkConc([frame EXCEPT ![p] = fr], p), p,
                                     Conflicting(p, i, "read"))
    /\ UNCHANGED <<secrets, versions, cache, puts, last, crashed>>

\* the runtime detects the race on an open access of p and throws
Fatal(p) ==
    /\ ~crashed /\ pc[p] \in {"read", "write"} /\ frame[p].raced
    /\ crashed' = TRUE
    /\ UNCHANGED <<secrets, versions, cache, puts, last, pc, frame, mapUse>>

\* parent, inCache := s.cache[name] completes (lines 71-72)
ReadEnd(p) ==
    /\ ~crashed /\ pc[p] = "read"
    /\ mapUse' = [mapUse EXCEPT ![p] = "none"]
    /\ LET e == cache[frame[p].inst][frame[p].name]
       IN IF e.inCache
          THEN /\ pc' = [pc EXCEPT ![p] = "access"]
               /\ frame' = [frame EXCEPT
                               ![p].fullName = versionRef(e.ref, frame[p].version),
                               ![p].calls = Append(@, "AccessSecretVersion")]
          ELSE /\ pc' = [pc EXCEPT ![p] = "list"]
               /\ frame' = [frame EXCEPT ![p].calls = Append(@, "ListSecrets")]
    /\ UNCHANGED <<secrets, versions, cache, puts, last, crashed>>

\* the listing is sent again when it failed
ListFailed_retry(p, rpcErr) ==
    /\ pc' = pc
    /\ frame' = [frame EXCEPT ![p].calls = Append(@, "ListSecrets"),
                              ![p].fault = rpcErr]

\* getSecret returns the error of iter.Next() and the caller returns it
\* wrapped (lines 92-98, then 124-130 or 74-76 and 169-175)
ListFailed(p, rpcErr) ==
    /\ pc' = [pc EXCEPT ![p] = "done"]
    /\ frame' = [frame EXCEPT
                    ![p].code = IF frame[p].op = "Put" THEN "Internal"
                                ELSE "InvalidArgument",
                    ![p].fault = rpcErr,
                    ![p].errAt = Len(frame[p].calls)]

\* iter.Next() returns in getSecret, up to the write of s.cache (lines 91-100)
ListReturn(p) ==
    /\ ~crashed /\ pc[p] = "list"
    /\ \E rpcErr \in BOOLEAN :
          LET fr == frame[p]
              req == ListSecretsRequest(fr.inst, [isNil |-> FALSE, Name |-> fr.name])
              result == IterNext(ListSecrets(req), rpcErr)
          IN IF result.err # "nil"
             THEN /\ ListFailed(p, rpcErr)
                  /\ UNCHANGED mapUse
             ELSE /\ pc' = [pc EXCEPT ![p] = "write"]
                  /\ mapUse' = [mapUse EXCEPT ![p] = "write"]
                  /\ frame' = MarkRaced([frame EXCEPT ![p].parent = result.Name], p,
                                        Conflicting(p, fr.inst, "write"))
    /\ UNCHANGED <<secrets, versions, cache, puts, last, crashed>>

\* s.cache[name] = result.Name completes; the caller sends its RPC
\* (lines 100-102, then 132 or 78-81 and 181)
WriteEnd(p) ==
    /\ ~crashed /\ pc[p] = "write"
    /\ mapUse' = [mapUse EXCEPT ![p] = "none"]
    /\ cache' = [cache EXCEPT ![frame[p].inst][frame[p].name] =
                                 [inCache |-> TRUE, ref |-> frame[p].parent]]
    /\ IF frame[p].op = "Put"
       THEN /\ pc' = [pc EXCEPT ![p] = "add"]
            /\ frame' = [frame EXCEPT ![p].calls = Append(@, "AddSecretVersion")]
       ELSE /\ pc' = [pc EXCEPT ![p] = "access"]
            /\ frame' = [frame EXCEPT
                            ![p].fullName = versionRef(frame[p].parent, frame[p].version),
                            ![p].calls = Append(@, "AccessSecretVersion")]
    /\ UNCHANGED <<secrets, versions, puts, last, crashed>>

\* AddSecretVersion returns and Put returns (lines 132-156)
AddReturn(p) ==
    /\ ~crashed /\ pc[p] = "add"
    /\ \E rpcErr \in BOOLEAN :
          \E verResult \in {AddSecretVersion(frame[p].parent, frame[p].val, rpcErr)} :
             /\ StoredVersions(verResult.versions) <= MaxVersions
             /\ versions' = verResult.versions
             /\ pc' = [pc EXCEPT ![p] = "done"]
             /\ IF verResult.err # "nil"
                THEN /\ frame' = [frame EXCEPT ![p].code = "Internal",
                                               ![p].fault = rpcErr,
                                               ![p].errAt = Len(frame[p].calls)]
                     /\ UNCHANGED puts
                ELSE /\ frame' = [frame EXCEPT
                                     ![p].code = "OK",
                                     ![p].retVersion = versionOf(verResult.Name)]
                     /\ puts' = puts \cup {[inst |-> frame[p].inst,
                                            name |-> frame[p].name,
                                            version |-> versionOf(verResult.Name),
                                            value |-> frame[p].val]}
    /\ UNCHANGED <<secrets, cache, last, mapUse, crashed>>

\* AccessSecretVersion returns and Access returns (lines 181-194)
AccessReturn(p) ==
    /\ ~crashed /\ pc[p] = "access"
    /\ \E rpcErr \in BOOLEAN :
          LET result == AccessSecretVersion(frame[p].fullName, rpcErr)
          IN /\ pc' = [pc EXCEPT ![p] = "done"]
             /\ frame' = [frame EXCEPT
                             ![p].code = IF result.err # "nil" THEN "Internal" ELSE "OK",
                             ![p].retVersion = IF result.err # "nil" THEN ""
                                               ELSE frame[p].version,
                             ![p].retValue = result.Data,
                             ![p].fault = rpcErr,
                             ![p].errAt = IF result.err # "nil"
                                          THEN Len(frame[p].calls) ELSE 0]
    /\ UNCHANGED <<secrets, versions, cache, puts, last, mapUse, crashed>>

\* the caller takes the result; the goroutine is free for the next call
Finish(p) ==
    /\ ~crashed /\ pc[p] = "done"
    /\ pc' = [pc EXCEPT ![p] = "idle"]
    /\ frame' = [frame EXCEPT ![p] = Idle]
    /\ UNCHANGED <<secrets, versions, cache, puts, last, mapUse, crashed>>

NextConc ==
    \/ CreateSecret("db-pass", "stackA")
    \/ \E p \in Procs : PutStart(p, "svcA", ConcSecret, PayloadOf(p))
    \/ \E p \in Procs, v \in VersionIds \ {""} : AccessStart(p, "svcA", SV("db-pass", v))
    \/ \E p \in Procs : Fatal(p)
    \/ \E p \in Procs : ReadEnd(p)
    \/ \E p \in Procs : ListReturn(p)
    \/ \E p \in Procs : WriteEnd(p)
    \/ \E p \in Procs : AddReturn(p)
    \/ \E p \in Procs : AccessReturn(p)
    \/ \E p \in Procs : Finish(p)

SpecConc == Init /\ [][NextConc]_vars

\* the next step of the call goroutine p runs: the scheduler runs p, or the
\* RPC p waits for returns
StepOf(p) ==
    ReadEnd(p) \/ ListReturn(p) \/ WriteEnd(p) \/ AddReturn(p) \/ AccessReturn(p)

\* concurrent calls under a fair scheduler and a store that answers every RPC
SpecLive == SpecConc /\ \A p \in Procs : WF_vars(StepOf(p))

----------------------------------------------------------------------------
(* Properties *)

PutValid(c) == ~c.secNil /\ c.name # "" /\ c.val # <<>>
AccessValid(c) == c.name # "" /\ c.version # ""

\* C1: round trip. Every version a successful Put(N, V) returned is, in every
\* later state, fetched by Access({N, X}) when the store answers: the call
\* succeeds with exactly V and the identifier it was given; and every Access of
\* such a version that was made and met no failing RPC did so.
C1_RoundTrip ==
    /\ \A r \in puts :
          \E out \in {AccessOutcome(r.inst, SV(r.name, r.version), FALSE, FALSE)} :
              /\ out.code = "OK"
              /\ out.Value = r.value
              /\ out.retName = r.name /\ out.retVersion = r.version
    /\ \A r \in puts :
          (last.op = "Access" /\ last.inst = r.inst /\ last.name = r.name
              /\ last.version = r.version /\ ~last.fault)
          => (last.code = "OK" /\ last.retValue = r.value
                 /\ last.retName = r.name /\ last.retVersion = r.version)

\* an Access fetched the first of two versions put under one name
C1_Witness ==
    /\ last.op = "Access" /\ last.code = "OK"
    /\ \E r \in puts, q \in puts :
          /\ r.name = last.name /\ r.version = last.version /\ r.inst = last.inst
          /\ last.retValue = r.value
          /\ q.name = r.name /\ q.version # r.version /\ q.value # r.value

\* C2: a valid Put for a name without a container under the stack creates the
\* container and succeeds (when no RPC fails).
C2_LazyCreation ==
    (last.op = "Put" /\ PutValid(last) /\ ~last.had /\ ~last.fault)
    => (last.code = "OK" /\ Labelled(last.name, stackName(last.inst)) # {})

\* C3: Put with a nil secret, an empty name or an empty value fails with
\* InvalidArgument and issues no RPC.
C3_PutRejectsMalformed ==
    (last.op = "Put" /\ ~PutValid(last))
    => (last.code = "InvalidArgument" /\ last.calls = <<>>)

\* a Put with an empty value was rejected although the name's container exists
C3_Witness ==
    /\ last.op = "Put" /\ last.val = <<>> /\ ~last.secNil /\ last.name # ""
    /\ last.had /\ last.code = "InvalidArgument"

\* C4: Access with an empty name or an empty version fails with
\* InvalidArgument and issues no RPC, cached or not.
C4_AccessRejectsMalformed ==
    (last.op = "Access" /\ ~AccessValid(last))
    => (last.code = "InvalidArgument" /\ last.calls = <<>>)

\* an Access with an empty version was rejected for a name that is cached
C4_Witness ==
    /\ last.op = "Access" /\ last.version = "" /\ last.name # ""
    /\ last.hit /\ last.code = "InvalidArgument"

\* C5: InvalidArgument is returned only for malformed input, and every failure
\* of a call that reached the store is Internal.
C5_ErrorKinds ==
    /\ last.op = "Put" => /\ last.code = "InvalidArgument" => ~PutValid(last)
                          /\ (last.code # "OK" /\ last.calls # <<>>)
                                 => last.code = "Internal"
    /\ last.op = "Access" => /\ last.code = "InvalidArgument" => ~AccessValid(last)
                             /\ (last.code # "OK" /\ last.calls # <<>>)
                                    => last.code = "Internal"

\* C6: a call that resolves a name already in the cache issues no ListSecrets.
C6_CacheHitNoListing ==
    (last.op \in {"Put", "Access"} /\ last.hit)
    => "ListSecrets" \notin Range(last.calls)

\* C7: a successful Put returns a version no earlier Put of that name
\* returned, and after it every version put under the name, the new one
\* included, is fetched with the value put under it.
C7_TwoPuts ==
    [][(last'.op = "Put" /\ last'.code = "OK" /\ versions' # versions)
       => /\ \A r \in puts :
                (r.inst = last'.inst /\ r.name = last'.name)
                => r.version # last'.retVersion
          /\ \E r \in puts' :
                r.inst = last'.inst /\ r.name = last'.name
                    /\ r.version = last'.retVersion /\ r.value = last'.val
          /\ \A r \in puts' :
                (r.inst = last'.inst /\ r.name = last'.name)
                => (AccessOutcome(r.inst, SV(r.name, r.version), FALSE, FALSE).code = "OK"
                    /\ AccessOutcome(r.inst, SV(r.name, r.version), FALSE, FALSE).Value
                           = r.value)']_vars

\* the second Put of a name returned, with a value other than the first
C7_Witness ==
    /\ last.op = "Put" /\ last.code = "OK"
    /\ \E r \in puts :
          r.name = last.name /\ r.inst = last.inst
              /\ r.version # last.retVersion /\ r.value # last.val

\* C8: an Access for a name without a container under the stack fails and
\* leaves the store and the cache as they were.
C8_AccessUnknownNoEffect ==
    [][(last'.op = "Access" /\ ~last'.had)
       => (last'.code # "OK" /\ UNCHANGED <<cache, secrets, versions>>)]_vars

\* an Access listed for a name that only another stack has a container of
C8_Witness ==
    /\ last.op = "Access" /\ ~last.had /\ last.calls = <<"ListSecrets">>
    /\ ~last.fault
    /\ \E st \in Stacks : st # stackName(last.inst) /\ Labelled(last.name, st) # {}

\* C9: no two calls of one instance have accesses to the cache map open at
\* the same time when one of the accesses is a write.
C9_NoUnsynchronizedCacheAccess ==
    \A p \in Procs, q \in Procs :
        (p # q /\ frame[p].inst = frame[q].inst /\ mapUse[p] = "write")
        => mapUse[q] = "none"

\* C10: when two Puts for one name that had no container overlap, both
\* return a version that Access then fetches with the value that caller put,
\* and a container is resolvable under the name (when no RPC fails).
C10_ConcurrentPutsNewName ==
    \A p \in Procs, q \in Procs :
        (/\ p # q
         /\ pc[p] = "done" /\ pc[q] = "done"
         /\ frame[p].op = "Put" /\ frame[q].op = "Put"
         /\ frame[p].inst = frame[q].inst /\ frame[p].name = frame[q].name
         /\ frame[p].conc /\ frame[q].conc
         /\ ~frame[p].had /\ ~frame[q].had
         /\ ~frame[p].fault /\ ~frame[q].fault)
        => /\ frame[p].code = "OK"
           /\ Labelled(frame[p].name, stackName(frame[p].inst)) # {}
           /\ \E out \in {AccessOutcome(frame[p].inst,
                                        SV(frame[p].name, frame[p].retVersion),
                                        FALSE, FALSE)} :
                 out.code = "OK" /\ out.Value = frame[p].val

\* C11: an Access of an existing version of a name whose cached reference is
\* no longer the container of that name and stack resolves the container
\* again and succeeds (when no RPC fails).
C11_StaleEntryReResolved ==
    \A id \in SecretIds : \A k \in 1..Len(versions[id]) :
        (/\ last.op = "Access" /\ ~last.fault /\ last.hit
         /\ id \in Labelled(last.name, stackName(last.inst))
         /\ cache[last.inst][last.name].ref # SecretName(id)
         /\ last.version = ToString(k))
        => (last.code = "OK" /\ last.retValue = versions[id][k])

\* a service without the cache: what Access(sv) returns when the name is
\* resolved by the labels of the store on every call
AccessFresh(i, sv) ==
    LET ids == Labelled(sv.Secret.Name, stackName(i))
        id == CHOOSE d \in ids : \A e \in ids : d <= e
    IN IF sv.Secret.Name = "" \/ sv.Version = "" \/ ids = {}
       THEN [code |-> "InvalidArgument", Value |-> <<>>, retVersion |-> ""]
       ELSE IF \E k \in 1..Len(versions[id]) : ToString(k) = sv.Version
       THEN [code |-> "OK",
             Value |-> versions[id][CHOOSE k \in 1..Len(versions[id]) :
                                        ToString(k) = sv.Version],
             retVersion |-> sv.Version]
       ELSE [code |-> "Internal", Value |-> <<>>, retVersion |-> ""]

\* a service without the cache: what Put(sec, val) returns
PutFresh(i, sec, val) ==
    LET ids == Labelled(sec.Name, stackName(i))
        id == CHOOSE d \in ids : \A e \in ids : d <= e
    IN IF sec.isNil \/ sec.Name = "" \/ val = <<>>
       THEN [code |-> "InvalidArgument", retVersion |-> ""]
       ELSE IF ids = {}
       THEN [code |-> "Internal", retVersion |-> ""]
       ELSE [code |-> "OK", retVersion |-> ToString(Len(versions[id]) + 1)]

\* C12: with containers and versions never deleted and the store answering,
\* every call returns what the service without the cache returns: the same
\* error kind, version and value.
C12_CacheIsOptimization ==
    /\ \A sv \in SecretVersionInputs :
          \E out \in {AccessOutcome("svcA", sv, FALSE, FALSE)} :
             \E ref \in {AccessFresh("svcA", sv)} :
                /\ out.code = ref.code
                /\ out.Value = ref.Value
                /\ out.retVersion = ref.retVersion
    /\ \A sec \in SecretInputs, val \in Values :
          \E out \in {PutOutcome("svcA", sec, val, FALSE, FALSE)} :
             \E ref \in {PutFresh("svcA", sec, val)} :
                out.code = ref.code /\ out.retVersion = ref.retVersion
    /\ (last.op = "Access" /\ ~last.fault)
       => \E ref \in {AccessFresh(last.inst, SV(last.name, last.version))} :
             /\ last.code = ref.code
             /\ last.retValue = ref.Value
             /\ last.retVersion = ref.retVersion

\* an Access answered through the cache, without a listing
C12_Witness ==
    /\ last.op = "Access" /\ last.hit /\ last.code = "OK"
    /\ last.calls = <<"AccessSecretVersion">>
    /\ last.retValue = AccessFresh(last.inst, SV(last.name, last.version)).Value

\* C13: every cache entry holds the container that a listing for its name
\* under the instance's stack returns; the cache changes only in a call whose
\* listing was issued and returned a container, and then only at the name of
\* the call; and an entry, once present, stays.
C13_CacheInvariant ==
    /\ [](\A i \in Instances, n \in Names \cup {""} :
             cache[i][n].inCache
             => /\ n # ""
                /\ \E id \in Labelled(n, stackName(i)) :
                      cache[i][n].ref = SecretName(id))
    /\ [][/\ \A i \in Instances, n \in Names \cup {""} :
                cache[i][n].inCache => cache'[i][n].inCache
          /\ cache' # cache
             => /\ last'.op \in {"Put", "Access"}
                /\ Len(last'.calls) = 2 /\ last'.calls[1] = "ListSecrets"
                /\ last'.had
                /\ \A i \in Instances, n \in Names \cup {""} :
                      cache'[i][n] # cache[i][n]
                      => i = last'.inst /\ n = last'.name]_vars

\* a Put whose listing failed left the entry of its name in the cache
C13_Witness ==
    /\ last.op = "Put" /\ last.fault /\ last.calls = <<"ListSecrets">>
    /\ cache[last.inst][last.name].inCache

\* the containers labelled with a stack other than that of instance i
Foreign(i) == {id \in SecretIds : secrets[id].stack # stackName(i)}

\* C14: no call of an instance resolves, caches, writes to or reads from a
\* container labelled with another stack: cached references and returned
\* versions are of containers of the instance's stack, a Put leaves the
\* versions of foreign containers as they were, and the value an Access
\* returns is the payload of that version in the instance's own container.
C14_ScopeIsolation ==
    /\ [](\A i \in Instances, n \in Names :
             cache[i][n].inCache
             => \A id \in Foreign(i) : cache[i][n].ref # SecretName(id))
    /\ []((last.op = "Access" /\ last.code = "OK")
             => \E id \in Labelled(last.name, stackName(last.inst)) :
                   \E k \in 1..Len(versions[id]) :
                      ToString(k) = last.version /\ last.retValue = versions[id][k])
    /\ [][(last'.op = "Put" /\ versions' # versions)
             => /\ \A id \in Foreign(last'.inst) : versions'[id] = versions[id]
                /\ \E id \in Labelled(last'.name, stackName(last'.inst)) :
                      versions'[id] = Append(versions[id], last'.val)]_vars

\* an instance fetched its own payload while the container of the other
\* stack holds another payload under the same name and version
C14_Witness ==
    /\ last.op = "Access" /\ last.code = "OK"
    /\ \E id \in Foreign(last.inst) : \E k \in 1..Len(versions[id]) :
          /\ secrets[id].name = last.name
          /\ ToString(k) = last.version
          /\ versions[id][k] # last.retValue

\* C15: Access with a nil secret version, or with one whose secret is nil,
\* returns InvalidArgument, issues no RPC and does not crash.
C15_AccessNilRejected ==
    (last.op = "Access" /\ last.secNil)
    => (last.code = "InvalidArgument" /\ last.calls = <<>> /\ ~crashed)

\* C16: a call issues at most one listing and at most one add-version or
\* version fetch, in that order; the RPC that returned an error is the last
\* the call issued and the call has returned; and an add-version or version
\* fetch is issued only with the reference of a container of the name.
C16_NoRetryFailFast ==
    \A p \in Procs :
        /\ frame[p].op = "Put"
           => frame[p].calls \in {<<>>, <<"ListSecrets">>,
                                  <<"ListSecrets", "AddSecretVersion">>}
        /\ frame[p].op = "Access"
           => frame[p].calls \in {<<>>, <<"ListSecrets">>, <<"AccessSecretVersion">>,
                                  <<"ListSecrets", "AccessSecretVersion">>}
        /\ frame[p].errAt # 0
           => (frame[p].errAt = Len(frame[p].calls) /\ pc[p] = "done"
                  /\ frame[p].code # "OK")
        /\ (pc[p] = "done" /\ frame[p].code # "OK" /\ frame[p].calls # <<>>)
           => frame[p].errAt = Len(frame[p].calls)
        /\ "AddSecretVersion" \in Range(frame[p].calls)
           => \E id \in Labelled(frame[p].name, stackName(frame[p].inst)) :
                 frame[p].parent = SecretName(id)
        /\ "AccessSecretVersion" \in Range(frame[p].calls)
           => \E id \in Labelled(frame[p].name, stackName(frame[p].inst)) :
                 frame[p].fullName = versionRef(SecretName(id), frame[p].version)

\* a Put whose listing failed has returned with that one RPC issued, while
\* the other goroutine's call has issued its two
C16_Witness ==
    \E p \in Procs, q \in Procs :
        /\ pc[p] = "done" /\ frame[p].op = "Put" /\ frame[p].fault
        /\ frame[p].calls = <<"ListSecrets">> /\ frame[p].errAt = 1
        /\ Len(frame[q].calls) = 2

\* C17: a successful Put(N, V) returns the name N and, as version, the last
\* "/"-separated part of the resource name of the version the store created;
\* that version holds V and was appended to the container labelled N under
\* the instance's stack, and no other container changed.
C17_PutResponse ==
    [][(last'.op = "Put" /\ last'.code = "OK" /\ versions' # versions)
       => /\ last'.retName = last'.name
          /\ \E id \in Labelled(last'.name, stackName(last'.inst)) :
                /\ versions'[id] = Append(versions[id], last'.val)
                /\ \A d \in SecretIds \ {id} : versions'[d] = versions[d]
                /\ <<last'.retVersion>>
                       = Split(VersionName(id, Len(versions'[id])))[6]
                /\ Len(Split(VersionName(id, Len(versions'[id])))) = 6]_vars

\* a Put of api-key returned version 1 while db-pass, created first, has a
\* container of the same stack
C17_Witness ==
    /\ last.op = "Put" /\ last.code = "OK" /\ last.name = "api-key"
    /\ last.retName = "api-key" /\ last.retVersion = "1"
    /\ \E id \in Labelled("db-pass", stackName(last.inst)) :
          \A d \in Labelled("api-key", stackName(last.inst)) : id < d

\* C18: every call that has started can take its next step whatever the
\* other calls are doing, and eventually returns.
C18_EveryCallReturns ==
    /\ [](\A p \in Procs : Running(p) => ENABLED StepOf(p))
    /\ \A p \in Procs : Running(p) ~> (pc[p] = "done")

====
